---- MODULE Spec2Model ----
(***************************************************************************)
(* Model of clickhouse_orm.database.Database: the capability probe, the    *)
(* request dispatcher and its parameter layering, the batched insert       *)
(* streamer, pagination, the migration runner, placeholder substitution    *)
(* and the generator of select.                                            *)
(***************************************************************************)
EXTENDS Integers, Sequences, FiniteSets, TLC

VARIABLES
    self,      \* the Database instance: its attributes
    server,    \* the ClickHouse server the instance talks to
    sent,      \* the requests sent by the last call, oldest first
    exc,       \* the exception the last call raised, or None
    op,        \* the last call: its name and arguments
    ret        \* what the last call returned (None when nothing)

vars == <<self, server, sent, exc, op, ret>>

None == "None"

(***************************************************************************)
(* Bounds of the model.                                                    *)
(***************************************************************************)
MaxSettings == 1       \* entries of the persistent settings mapping
MaxCallSettings == 1   \* entries of a per-call settings mapping
MaxRecords == 7        \* records passed to one insert
MaxBatch == 4          \* largest batch_size passed to insert
NumUnits == 3          \* migration units of the package, 0001..
MaxRows == 7           \* rows of the paginated table
MaxPageSize == 3       \* largest page_size passed to paginate
MaxQueryLen == 4       \* tokens of a query text given to _substitute
MaxLines == 3          \* lines after the two header lines of a response

(***************************************************************************)
(* Dictionaries are functions; update is dict.update.                      *)
(***************************************************************************)
EmptyDict == [k \in {} |-> None]

DictUpdate(d, e) ==
    [k \in (DOMAIN d) \cup (DOMAIN e) |-> IF k \in DOMAIN e THEN e[k] ELSE d[k]]

DictSet(d, k, v) == DictUpdate(d, [x \in {k} |-> v])

DictPop(d, k) == [x \in (DOMAIN d) \ {k} |-> d[x]]

Dicts(keys, vals, n) ==
    UNION {[K -> vals] : K \in {S \in SUBSET keys : Cardinality(S) <= n}}

(***************************************************************************)
(* Tuples of integers compare as Python tuples do: lexicographically, a    *)
(* proper prefix being smaller.                                            *)
(***************************************************************************)
RECURSIVE TupleLess(_, _)
TupleLess(a, b) ==
    IF b = <<>> THEN FALSE
    ELSE IF a = <<>> THEN TRUE
    ELSE IF Head(a) # Head(b) THEN Head(a) < Head(b)
    ELSE TupleLess(Tail(a), Tail(b))

TupleGreater(a, b) == TupleLess(b, a)

TupleGreaterEq(a, b) == ~TupleLess(a, b)

(***************************************************************************)
(* The inputs and the environment.                                         *)
(***************************************************************************)
db_name == "db"

SettingNames ==
    {"max_execution_time", "session_id", "database", "readonly"}
SettingValues == {"v1", "v2"}
PersistentValues == {"v1"}

\* the setting names that collide with the parameters the dispatcher adds
ReservedNames == {"database", "readonly"}

\* ctx_session_id / ctx_session_timeout of the calling context
NoSession == [session_id |-> None, session_timeout |-> None]
Contexts ==
    { NoSession,
      [session_id |-> "s1", session_timeout |-> None],
      [session_id |-> "s1", session_timeout |-> "30"] }

\* the contexts the calls of a connection's life are made in
CallContexts == {NoSession, [session_id |-> "s1", session_timeout |-> None]}

\* what happens to one request: a 200 response, a non-200 response, or no
\* response at all (httpx raises)
Outcomes == {"ok", "status", "transport"}

\* the outcomes of the n requests of one call.  A failed request either
\* ends the call or (version, timezone probes) is followed by no further
\* request, so at most one request of a call fails.
OutcomeSeqs(n) ==
    {[i \in 1..n |-> "ok"]} \cup
    {[i \in 1..n |-> IF i = j THEN o ELSE "ok"] : j \in 1..n, o \in Outcomes \ {"ok"}}

\* a version text is its dot-separated components; a component that is
\* not all digits is -1
NonDigit == 0 - 1
VersionTexts ==
    { <<1, 1, 53981>>, <<19, 1, 16, NonDigit>> }

ServerTimezones == {"Europe/Moscow"}
ServerReadonly == {"0", "1"}

\* the statements the model sends: the SQL text and the numbers formatted
\* into it
Query(sql, args) == [sql |-> sql, args |-> args]
ExistsQuery == Query("SELECT count() FROM system.databases WHERE name = 'db'", <<>>)
ReadonlyQuery == Query("SELECT value FROM system.settings WHERE name = 'readonly'", <<>>)
CreateQuery == Query("CREATE DATABASE IF NOT EXISTS db ENGINE = Atomic", <<>>)
DropQuery == Query("DROP DATABASE db", <<>>)
VersionQuery == Query("SELECT version();", <<>>)
TimezoneQuery == Query("SELECT timezone()", <<>>)
RawQuery == Query("SELECT 1", <<>>)
CountQuery == Query("SELECT count() FROM db.t", <<>>)
SelectQuery == Query("SELECT * FROM db.t FORMAT TabSeparatedWithNamesAndTypes", <<>>)
DropTableQuery == Query("DROP TABLE IF EXISTS db.t", <<>>)
PageSql == "SELECT * FROM db.t ORDER BY k LIMIT %d, %d FORMAT TabSeparatedWithNamesAndTypes"
HistoryTable == "db.infi_clickhouse_orm_migrations"
CreateHistoryQuery == Query("CREATE TABLE IF NOT EXISTS db.infi_clickhouse_orm_migrations", <<>>)
HistoryQuery == Query("SELECT module_name from db.infi_clickhouse_orm_migrations WHERE package_name = 'p' FORMAT TabSeparatedWithNamesAndTypes", <<>>)
OperationSql == "operation"
InsertSql(table) ==
    IF table = HistoryTable
    THEN "INSERT INTO db.infi_clickhouse_orm_migrations (fields) FORMAT TabSeparated"
    ELSE "INSERT INTO db.t (fields) FORMAT TabSeparated"

\* the migration units of the package, named by their 4-digit prefix, and
\* the operations of one unit
Modules == 1..NumUnits
OpsPerUnit == 2
Operations == 1..OpsPerUnit

\* the lines of a tabular response: names, types, then a positive number
\* for each data line; BlankLine is a line of white space
NamesLine == 0 - 1
TypesLine == 0 - 2
BlankLine == 0 - 3

\* a data line that model_class.from_tsv cannot decode
BadLine == 0 - 4

\* the line written for a record is the record's number; the statement
\* line of an insert is Header
Header == 0

RECURSIVE SetToSeq(_)
SetToSeq(S) ==
    IF S = {} THEN <<>>
    ELSE LET x == CHOOSE y \in S : \A z \in S : y <= z
         IN  <<x>> \o SetToSeq(S \ {x})

RECURSIVE Concat(_)
Concat(seqs) == IF seqs = <<>> THEN <<>> ELSE Head(seqs) \o Concat(Tail(seqs))

(***************************************************************************)
(* The server: what it answers to a statement and how a statement changes  *)
(* it.  DROP DATABASE of a database that does not exist is refused.  rows  *)
(* is the number of rows of the table read, response the lines it answers  *)
(* to the plain SELECT, history[u] the number of history rows of           *)
(* migration unit u, applied the operations executed.                      *)
(***************************************************************************)
ServerRefuses(srv, data) == data = DropQuery /\ ~srv.db_exists

\* LIMIT offset, limit over the srv.rows rows of the table
LimitRows(srv, offset, limit) ==
    [i \in 1..(IF srv.rows - offset < 0 THEN 0
               ELSE IF srv.rows - offset < limit THEN srv.rows - offset
               ELSE limit) |-> offset + i]

ServerText(srv, data) ==
    CASE data = ExistsQuery -> IF srv.db_exists THEN "1" ELSE "0"
      [] data = ReadonlyQuery -> srv.readonly
      [] data = TimezoneQuery -> srv.timezone
      [] data = VersionQuery -> srv.version
      [] data = CountQuery -> srv.rows
      [] data = SelectQuery -> srv.response
      [] data = HistoryQuery ->
            <<NamesLine, TypesLine>> \o
            SetToSeq({u \in Modules : srv.history[u] > 0})
      [] data.sql = PageSql ->
            <<NamesLine, TypesLine>> \o LimitRows(srv, data.args[1], data.args[2])
      [] OTHER -> ""

ServerApply(srv, data) ==
    CASE data = CreateQuery -> [srv EXCEPT !.db_exists = TRUE]
      [] data = DropQuery -> [srv EXCEPT !.db_exists = FALSE]
      [] data.sql = OperationSql ->
            [srv EXCEPT !.applied = @ \cup {data.args}]
      [] data.sql = InsertSql(HistoryTable) ->
            [srv EXCEPT !.history =
                [u \in Modules |->
                    @[u] + Cardinality({i \in 1..Len(Concat(data.args)) :
                                            Concat(data.args)[i] = u})]]
      [] OTHER -> srv

(***************************************************************************)
(* A call runs on a record m: the instance, the server, the requests sent  *)
(* so far, the exception raised (None while running), the last response's  *)
(* text, and the value the last helper returned.               *)
(***************************************************************************)
Start(s, srv) ==
    [self |-> s, server |-> srv, sent |-> <<>>, exc |-> None,
     text |-> "", val |-> FALSE]

Raise(m, e) == [m EXCEPT !.exc = e]

\* Database._context_params
_context_params(ctx) ==
    IF ctx.session_id # None
    THEN [k \in {"session_id", "session_timeout"} |->
            IF k = "session_id" THEN ctx.session_id
            ELSE IF ctx.session_timeout # None THEN ctx.session_timeout ELSE "60"]
    ELSE EmptyDict

\* mutant: the readonly flag is sent whatever the server connection is
_build_params_flag_always(s, settings, ctx) ==
    LET p1 == DictUpdate(settings, s.settings)
        p2 == DictUpdate(p1, _context_params(ctx))
        p3 == IF s.db_exists THEN DictSet(p2, "database", db_name) ELSE p2
    IN  IF s.readonly THEN DictSet(p3, "readonly", "1") ELSE p3

\* mutant: the per-call settings are laid over the persistent ones
_build_params_call_wins(s, settings, ctx) ==
    LET p1 == DictUpdate(s.settings, settings)
        p2 == DictUpdate(p1, _context_params(ctx))
        p3 == IF s.db_exists THEN DictSet(p2, "database", db_name) ELSE p2
    IN  IF s.readonly /\ ~s.connection_readonly
        THEN DictSet(p3, "readonly", "1")
        ELSE p3

\* Database._build_params
_build_params(s, settings, ctx) ==
    LET p1 == DictUpdate(settings, s.settings)
        p2 == DictUpdate(p1, _context_params(ctx))
        p3 == IF s.db_exists THEN DictSet(p2, "database", db_name) ELSE p2
    IN  IF s.readonly /\ ~s.connection_readonly
        THEN DictSet(p3, "readonly", "1")
        ELSE p3

\* Database._send: outs[i] is what happens to the i-th request of the call.
\* A request is logged with the arguments and the instance it was built
\* from and with the exception it raised.
_send(m, data, settings, ctx, outs) ==
    LET params == _build_params(m.self, settings, ctx)
        request == [data |-> data, params |-> params, settings |-> settings,
                    ctx |-> ctx, by |-> m.self]
        o == outs[Len(m.sent) + 1]
        e == IF o = "transport" THEN "TransportError"
             ELSE IF o = "status" \/ ServerRefuses(m.server, data) THEN "ServerError"
             ELSE None
        m1 == [m EXCEPT !.sent = Append(m.sent, request @@ [raised |-> e])]
    IN  IF e # None THEN Raise(m1, e)
        ELSE [m1 EXCEPT !.server = ServerApply(m.server, data),
                        !.text = ServerText(m.server, data)]

\* Database._is_existing_database
_is_existing_database(m, ctx, outs) ==
    LET r == _send(m, ExistsQuery, EmptyDict, ctx, outs)
    IN  IF r.exc # None THEN r ELSE [r EXCEPT !.val = (r.text = "1")]

\* Database._is_connection_readonly
_is_connection_readonly(m, ctx, outs) ==
    LET r == _send(m, ReadonlyQuery, EmptyDict, ctx, outs)
    IN  IF r.exc # None THEN r ELSE [r EXCEPT !.val = (r.text # "0")]

\* tuple(int(n) for n in ver.split(".") if n.isdigit())
ParseVersion(ver) == SelectSeq(ver, LAMBDA n : n # NonDigit)

DefaultVersionText == <<1, 1, 0>>

\* Database._get_server_version: only ServerError is caught
_get_server_version(m, ctx, outs) ==
    LET r == _send(m, VersionQuery, EmptyDict, ctx, outs)
    IN  IF r.exc = "ServerError"
        THEN [r EXCEPT !.exc = None, !.val = ParseVersion(DefaultVersionText)]
        ELSE IF r.exc # None THEN r
        ELSE [r EXCEPT !.val = ParseVersion(r.text)]

\* mutant: the timezone query's ServerError is not caught
_get_server_timezone_uncaught(m, ctx, outs) ==
    _send(m, TimezoneQuery, EmptyDict, ctx, outs)

\* Database._get_server_timezone: only ServerError is caught
_get_server_timezone(m, ctx, outs) ==
    LET r == _send(m, TimezoneQuery, EmptyDict, ctx, outs)
    IN  IF r.exc = "ServerError" THEN [r EXCEPT !.exc = None, !.val = "UTC"]
        ELSE IF r.exc # None THEN r
        ELSE [r EXCEPT !.val = r.text]

\* Database.create_database
create_database(m, ctx, outs) ==
    LET r == _send(m, CreateQuery, EmptyDict, ctx, outs)
    IN  IF r.exc # None THEN r ELSE [r EXCEPT !.self.db_exists = TRUE]

\* mutant: the database is still taken to exist after it was dropped
drop_database_flag_kept(m, ctx, outs) ==
    _send(m, DropQuery, EmptyDict, ctx, outs)

\* Database.drop_database
drop_database(m, ctx, outs) ==
    LET r == _send(m, DropQuery, EmptyDict, ctx, outs)
    IN  IF r.exc # None THEN r ELSE [r EXCEPT !.self.db_exists = FALSE]

\* mutant: a readonly connection with auto_create creates the database
InitDatabase_creates(m, ctx, outs) ==
    LET a == _is_existing_database(m, ctx, outs)
        b == [a EXCEPT !.self.db_exists = a.val]
    IN  IF a.exc # None THEN a
        ELSE IF b.self.auto_create /\ ~b.self.db_exists
        THEN create_database(b, ctx, outs)
        ELSE IF b.self._readonly
        THEN IF ~b.self.db_exists THEN Raise(b, "DatabaseException")
             ELSE LET r == _is_connection_readonly(b, ctx, outs)
                  IN  IF r.exc # None THEN r
                      ELSE [r EXCEPT !.self.connection_readonly = r.val,
                                     !.self.readonly = TRUE]
        ELSE b

\* Database.init, lines 157-166: existence, readonly mode, auto-creation
InitDatabase(m, ctx, outs) ==
    LET a == _is_existing_database(m, ctx, outs)
        b == [a EXCEPT !.self.db_exists = a.val]
    IN  IF a.exc # None THEN a
        ELSE IF b.self._readonly
        THEN IF ~b.self.db_exists THEN Raise(b, "DatabaseException")
             ELSE LET r == _is_connection_readonly(b, ctx, outs)
                  IN  IF r.exc # None THEN r
                      ELSE [r EXCEPT !.self.connection_readonly = r.val,
                                     !.self.readonly = TRUE]
        ELSE IF b.self.auto_create /\ ~b.self.db_exists
        THEN create_database(b, ctx, outs)
        ELSE b

\* Database.init, lines 167-176: version, timezone, feature flags
InitCapabilities(m, ctx, outs) ==
    LET v == _get_server_version(m, ctx, outs)
        c == [v EXCEPT !.self.server_version = {v.val}]
        t == IF TupleGreater(v.val, <<1, 1, 53981>>)
             THEN _get_server_timezone(c, ctx, outs)
             ELSE [c EXCEPT !.val = "UTC"]
    IN  IF v.exc # None THEN v
        ELSE IF t.exc # None THEN t
        ELSE [t EXCEPT
                !.self.server_timezone = t.val,
                !.self.has_codec_support = {TupleGreaterEq(v.val, <<19, 1, 16>>)},
                !.self.has_low_cardinality_support = {TupleGreaterEq(v.val, <<19, 0>>)}]

\* Database.init
init(m, ctx, outs) ==
    IF m.self._init THEN m
    ELSE LET d == InitDatabase(m, ctx, outs)
         IN  IF d.exc # None THEN d ELSE InitCapabilities(d, ctx, outs)

\* Database.add_setting
add_setting(s, name, value) ==
    IF value = None
    THEN [s EXCEPT !.settings = DictPop(s.settings, name)]
    ELSE [s EXCEPT !.settings = DictSet(s.settings, name, value)]

\* Database.raw
raw(m, settings, ctx, outs) == _send(m, RawQuery, settings, ctx, outs)

(***************************************************************************)
(* The instance after __init__, lines 132-150, before init() has run.      *)
(***************************************************************************)
NewDatabase(ro, auto) ==
    [db_exists |-> FALSE, readonly |-> FALSE, _readonly |-> ro,
     auto_create |-> auto, connection_readonly |-> FALSE,
     server_version |-> {}, server_timezone |-> None,
     has_codec_support |-> {}, has_low_cardinality_support |-> {},
     _init |-> FALSE, settings |-> EmptyDict]

Servers ==
    [db_exists : BOOLEAN, readonly : ServerReadonly,
     version : VersionTexts, timezone : ServerTimezones,
     rows : {0},
     response : {<<>>},
     history : {[u \in Modules |-> 0]},
     applied : {{}}]

Init ==
    /\ \E ro \in BOOLEAN, auto \in BOOLEAN : self = NewDatabase(ro, auto)
    /\ server \in Servers
    /\ sent = <<>>
    /\ exc = None
    /\ op = [name |-> "__init__", before |-> self]
    /\ ret = None

\* the call has run to m
Finish(name, m) ==
    /\ self' = m.self
    /\ server' = m.server
    /\ sent' = m.sent
    /\ exc' = m.exc
    /\ op' = [name |-> name, before |-> self]
    /\ ret' = None

\* init sends at most four requests: the existence check, the readonly
\* query or CREATE DATABASE, the version query, the timezone query
MaxRequests == 2 + 2

CallInit ==
    \E ctx \in CallContexts, outs \in OutcomeSeqs(MaxRequests) :
        \E m \in {init(Start(self, server), ctx, outs)} : Finish("init", m)

CallCreateDatabase ==
    \E ctx \in CallContexts, outs \in OutcomeSeqs(1) :
        \E m \in {create_database(Start(self, server), ctx, outs)} :
            Finish("create_database", m)

CallDropDatabase ==
    \E ctx \in CallContexts, outs \in OutcomeSeqs(1) :
        \E m \in {drop_database(Start(self, server), ctx, outs)} :
            Finish("drop_database", m)

\* in the life of a connection the settings added and passed are those
\* whose names collide with the database and readonly parameters
CallAddSetting ==
    \E name \in ReservedNames, value \in {"v1", None} :
        \E m \in {Start(add_setting(self, name, value), server)} :
            /\ Cardinality(DOMAIN m.self.settings) <= MaxSettings
            /\ Finish("add_setting", m)

CallRaw ==
    \E settings \in Dicts(ReservedNames, {"v2"}, MaxCallSettings),
       ctx \in CallContexts, outs \in OutcomeSeqs(1) :
        \E m \in {raw(Start(self, server), settings, ctx, outs)} : Finish("raw", m)

Next ==
    \/ CallInit
    \/ CallCreateDatabase
    \/ CallDropDatabase
    \/ CallAddSetting
    \/ CallRaw

Spec == Init /\ [][Next]_vars

(***************************************************************************)
(* The capability probe.                                                   *)
(***************************************************************************)
Capabilities(s) ==
    <<s.db_exists, s.readonly, s.connection_readonly, s.server_version,
      s.server_timezone, s.has_codec_support, s.has_low_cardinality_support>>

\* init() sets has_low_cardinality_support last: it is set exactly when a
\* call of init() has run to its end
Probed(s) == s.has_low_cardinality_support # {}

LastRequest == sent[Len(sent)]

\* C1: after init() has completed once, a later call of init() sends no
\* request and leaves the capability fields as they were.
C1_ProbeRunsOnce ==
    (op.name = "init" /\ Probed(op.before)) =>
        (sent = <<>> /\ Capabilities(self) = Capabilities(op.before))

HasReadonlyFlag(r) == "readonly" \in DOMAIN r.params /\ r.params["readonly"] = "1"

\* C2 as stated: every request of a connection created with readonly=True,
\* the probe's requests included, carries readonly=1 exactly when the
\* server connection is not globally readonly.
C2_ReadonlyOnEveryRequest ==
    \A i \in 1..Len(sent) :
        sent[i].by._readonly =>
            (HasReadonlyFlag(sent[i]) <=> server.readonly = "0")

\* the value a setting named k gives the request r, None when there is none
SettingFor(r, k) ==
    IF k \in DOMAIN r.by.settings THEN r.by.settings[k]
    ELSE IF k \in DOMAIN r.settings THEN r.settings[k]
    ELSE None

ParamFor(r, k) == IF k \in DOMAIN r.params THEN r.params[k] ELSE None

\* C2 amended: a request sent once init() has set the readonly flag carries
\* readonly=1 exactly when the server connection is not globally readonly;
\* when it is, and on every request sent before the flag is set (the
\* probe's existence check and readonly-setting query among them), the
\* dispatcher adds no readonly parameter of its own: the request has one
\* only if a setting named readonly supplies it.  The flag is set only on
\* connections created with readonly=True.
C2_ReadonlyOnceFlagSet ==
    \A i \in 1..Len(sent) :
        LET r == sent[i]
        IN  /\ r.by.readonly => r.by._readonly
            /\ (r.by.readonly /\ server.readonly = "0") => HasReadonlyFlag(r)
            /\ (~r.by.readonly \/ server.readonly # "0") =>
                    ParamFor(r, "readonly") = SettingFor(r, "readonly")

\* C2 witness: the version query of a probe in requested-readonly mode is
\* sent with readonly=1
C2_Witness ==
    /\ op.name = "init"
    /\ \E i \in 1..Len(sent) :
        /\ sent[i].data = VersionQuery
        /\ sent[i].by.readonly
        /\ HasReadonlyFlag(sent[i])

ProbeQueryFailed ==
    /\ op.name = "init"
    /\ sent # <<>>
    /\ LastRequest.data \in {VersionQuery, TimezoneQuery}
    /\ LastRequest.raised # None

AllCapabilitiesSet(s) ==
    /\ s.server_version # {}
    /\ s.server_timezone # None
    /\ s.has_codec_support # {}
    /\ s.has_low_cardinality_support # {}

\* C10 as stated: a failed version or timezone query, server error or
\* transport failure alike, never aborts init(): the defaults are taken
\* and every capability field is set.
C10_ProbeFailureNeverAborts ==
    ProbeQueryFailed =>
        /\ exc = None
        /\ AllCapabilitiesSet(self)
        /\ self.server_timezone = "UTC"
        /\ LastRequest.data = VersionQuery => self.server_version = {<<1, 1, 0>>}

\* C10 amended: a server error (non-200 response) to the version or the
\* timezone query never aborts init(): the version degrades to 1.1.0, the
\* timezone to UTC, and init() completes with every capability field set.
\* A transport-level failure of either query is not caught: init() ends
\* with that error.
C10_ServerErrorDegrades ==
    ProbeQueryFailed =>
        IF LastRequest.raised = "ServerError"
        THEN /\ exc = None
             /\ AllCapabilitiesSet(self)
             /\ self.server_timezone = "UTC"
             /\ LastRequest.data = VersionQuery => self.server_version = {<<1, 1, 0>>}
        ELSE exc = "TransportError"

\* C10 witness: the timezone query of a first probe got a server error and
\* init() completed
C10_Witness ==
    /\ ProbeQueryFailed
    /\ LastRequest.data = TimezoneQuery
    /\ LastRequest.raised = "ServerError"
    /\ ~Probed(op.before)
    /\ exc = None

\* the last call was init() on a connection created with readonly=True
ReadonlyInit == op.name = "init" /\ op.before._readonly

\* the existence check of the last init() was answered: the database is
\* absent
ReportedAbsent ==
    /\ sent # <<>>
    /\ sent[1].data = ExistsQuery
    /\ sent[1].raised = None
    /\ ~server.db_exists

Unset(s) ==
    /\ ~s.readonly
    /\ s.server_version = {}
    /\ s.server_timezone = None
    /\ s.has_codec_support = {}
    /\ s.has_low_cardinality_support = {}

\* C12: init() on a connection created with readonly=True never sends
\* CREATE DATABASE, whatever auto_create is; when the existence check
\* reports the database absent it fails with an error right after that
\* check, and the readonly flag and the capability fields are as they were
\* before: unset.
C12_ReadonlyNeedsDatabase ==
    ReadonlyInit =>
        /\ \A i \in 1..Len(sent) : sent[i].data # CreateQuery
        /\ ReportedAbsent =>
              /\ exc = "DatabaseException"
              /\ Len(sent) = 1
              /\ ~self.db_exists
              /\ self.readonly = op.before.readonly
              /\ self.connection_readonly = op.before.connection_readonly
              /\ self.server_version = op.before.server_version
              /\ self.server_timezone = op.before.server_timezone
              /\ self.has_codec_support = op.before.has_codec_support
              /\ self.has_low_cardinality_support =
                    op.before.has_low_cardinality_support
              /\ Unset(op.before) => Unset(self)

\* C12 witness: the first init() of a connection created with
\* readonly=True and auto_create=True has failed over an absent database
C12_Witness ==
    /\ ReadonlyInit
    /\ ReportedAbsent
    /\ op.before = NewDatabase(TRUE, TRUE)
    /\ exc = "DatabaseException"
    /\ Unset(self)

\* the request r has no database parameter
OmitsDatabase(r) == "database" \notin DOMAIN r.params

\* C17 as stated: a request carries the database parameter exactly when
\* db_exists is true at the moment it is sent.
C17_DatabaseIffExists ==
    \A i \in 1..Len(sent) : ~OmitsDatabase(sent[i]) <=> sent[i].by.db_exists

\* C17 amended: the first request of a call is sent by the instance as the
\* call found it.  A request sent while db_exists is true carries
\* database=db; one sent while it is false gets no database parameter
\* from the dispatcher: it has one only if a setting named database
\* supplies it.  So, no such setting given, the existence check and the
\* CREATE DATABASE of an init() that found db_exists false omit it.  A
\* create_database that succeeds leaves db_exists true, a drop_database
\* that succeeds leaves it false, one whose request fails leaves it as it
\* was.
C17_DatabaseWhileExists ==
    /\ sent # <<>> => sent[1].by = op.before
    /\ \A i \in 1..Len(sent) :
          LET r == sent[i]
          IN  /\ ParamFor(r, "database") =
                    IF r.by.db_exists THEN db_name ELSE SettingFor(r, "database")
              /\ (/\ op.name = "init"
                  /\ ~op.before.db_exists
                  /\ r.data \in {ExistsQuery, CreateQuery}
                  /\ SettingFor(r, "database") = None) => OmitsDatabase(r)
    /\ op.name = "create_database" =>
          self.db_exists = IF exc = None THEN TRUE ELSE op.before.db_exists
    /\ op.name = "drop_database" =>
          self.db_exists = IF exc = None THEN FALSE ELSE op.before.db_exists

\* C17 witness: a drop_database has succeeded on a connection that has a
\* setting named database: its request, sent while db_exists was true,
\* carried database=db, and db_exists is now false
C17_Witness ==
    /\ op.name = "drop_database"
    /\ exc = None
    /\ op.before.db_exists
    /\ ~self.db_exists
    /\ "database" \in DOMAIN sent[1].by.settings
    /\ ParamFor(sent[1], "database") = db_name

(***************************************************************************)
(* The parameter layering of _build_params, on every instance the probe    *)
(* can leave behind.                                                       *)
(***************************************************************************)
ProbedDatabases ==
    {s \in {[NewDatabase(ro, TRUE) EXCEPT !.db_exists = e, !.readonly = ro,
                                          !.connection_readonly = cro] :
                ro \in BOOLEAN, e \in BOOLEAN, cro \in BOOLEAN} :
        s.connection_readonly => s.readonly}

InitParams ==
    /\ self \in ProbedDatabases
    /\ server \in {srv \in Servers :
                        /\ srv.version = <<1, 1, 53981>>
                        /\ srv.db_exists = self.db_exists
                        /\ (srv.readonly # "0") = self.connection_readonly}
    /\ sent = <<>>
    /\ exc = None
    /\ op = [name |-> "__init__", before |-> self]
    /\ ret = None

ParamsAddSetting ==
    \E name \in SettingNames, value \in PersistentValues \cup {None} :
        /\ Cardinality(DOMAIN add_setting(self, name, value).settings) <= MaxSettings
        /\ self' = add_setting(self, name, value)
        /\ op' = [name |-> "add_setting", before |-> self]
        /\ ret' = None
        /\ UNCHANGED <<server, sent, exc>>

ParamsBuild ==
    \E settings \in Dicts(SettingNames, SettingValues, MaxCallSettings),
       ctx \in Contexts :
        /\ ret' = _build_params(self, settings, ctx)
        /\ op' = [name |-> "_build_params", before |-> self,
                  settings |-> settings, ctx |-> ctx]
        /\ UNCHANGED <<self, server, sent, exc>>

NextParams == ParamsAddSetting \/ ParamsBuild

SpecParams == InitParams /\ [][NextParams]_vars

\* the layers of a call of _build_params, lowest first; a layer is the
\* dictionary it contributes
Layers(s, settings, ctx) ==
    << settings,
       s.settings,
       IF ctx.session_id = None THEN EmptyDict
       ELSE [k \in {"session_id", "session_timeout"} |->
                IF k = "session_id" THEN ctx.session_id
                ELSE IF ctx.session_timeout = None THEN "60" ELSE ctx.session_timeout],
       IF s.db_exists THEN [k \in {"database"} |-> db_name] ELSE EmptyDict,
       IF s.readonly /\ ~s.connection_readonly
       THEN [k \in {"readonly"} |-> "1"] ELSE EmptyDict >>

\* C3: the parameters sent are the union of the five layers, and a key
\* present in several layers has the value of the highest of them; a
\* persistent setting overrides a per-call setting of the same name.
C3_LayerPrecedence ==
    op.name = "_build_params" =>
        LET L == Layers(op.before, op.settings, op.ctx)
        IN  /\ DOMAIN ret = UNION {DOMAIN L[i] : i \in 1..5}
            /\ \A k \in DOMAIN ret :
                \E i \in 1..5 :
                    /\ k \in DOMAIN L[i]
                    /\ \A j \in (i + 1)..5 : k \notin DOMAIN L[j]
                    /\ ret[k] = L[i][k]

\* C3 witness: a per-call setting and a persistent setting of the same name
\* with different values, and the persistent value is the one sent
C3_Witness ==
    /\ op.name = "_build_params"
    /\ \E k \in DOMAIN op.settings \cap DOMAIN op.before.settings :
        /\ op.settings[k] # op.before.settings[k]
        /\ k \in DOMAIN ret
        /\ ret[k] = op.before.settings[k]

(***************************************************************************)
(* The batched insert streamer.  A buffer is the sequence of the lines     *)
(* written to it.                                                          *)
(***************************************************************************)
\* mutant: the lines left in the buffer at the end of the input are not
\* yielded
RECURSIVE GenLoopNoRest(_, _, _, _, _)
GenLoopNoRest(rest, buf, lines, batch_size, chunks) ==
    IF rest = <<>>
    THEN chunks
    ELSE IF lines + 1 >= batch_size
         THEN GenLoopNoRest(Tail(rest), <<>>, 0, batch_size,
                            Append(chunks, Append(buf, Head(rest))))
         ELSE GenLoopNoRest(Tail(rest), Append(buf, Head(rest)), lines + 1,
                            batch_size, chunks)

\* the loop of gen(), lines 283-295: rest are the instances not yet read
RECURSIVE GenLoop(_, _, _, _, _)
GenLoop(rest, buf, lines, batch_size, chunks) ==
    IF rest = <<>>
    THEN IF lines # 0 THEN Append(chunks, buf) ELSE chunks
    ELSE IF lines + 1 >= batch_size
         THEN GenLoop(Tail(rest), <<>>, 0, batch_size,
                      Append(chunks, Append(buf, Head(rest))))
         ELSE GenLoop(Tail(rest), Append(buf, Head(rest)), lines + 1,
                      batch_size, chunks)

\* Database.insert.gen: the chunks it yields when run to its end
gen(first_instance, rest, batch_size) ==
    GenLoop(rest, <<Header, first_instance>>, 2, batch_size, <<>>)

\* mutant: the kind is tested before the sequence is found empty
insert_kind_first(m, model_instances, batch_size, kind, ctx, outs) ==
    IF kind.read_only \/ kind.system THEN Raise(m, "DatabaseException")
    ELSE IF model_instances = <<>> THEN m
    ELSE _send(m, Query(InsertSql(kind.table),
                        gen(Head(model_instances), Tail(model_instances), batch_size)),
               EmptyDict, ctx, outs)

\* Database.insert; kind is the instances' class: its table, whether it is
\* read-only and whether it is a system model.  The request's body, args,
\* is the chunks gen() yields.
insert(m, model_instances, batch_size, kind, ctx, outs) ==
    IF model_instances = <<>> THEN m
    ELSE IF kind.read_only \/ kind.system THEN Raise(m, "DatabaseException")
    ELSE _send(m, Query(InsertSql(kind.table),
                        gen(Head(model_instances), Tail(model_instances), batch_size)),
               EmptyDict, ctx, outs)

\* mutant: the system table is dropped like any other
drop_table_unchecked(m, kind, ctx, outs) ==
    _send(m, DropTableQuery, EmptyDict, ctx, outs)

\* Database.drop_table: only is_system_model() is tested
drop_table(m, kind, ctx, outs) ==
    IF kind.system THEN Raise(m, "DatabaseException")
    ELSE _send(m, DropTableQuery, EmptyDict, ctx, outs)

Kinds == [table : {"db.t"}, read_only : BOOLEAN, system : BOOLEAN]

BatchSizes == (0 - 1)..MaxBatch

Instances(n) == [i \in 1..n |-> i]

InitInsert ==
    /\ self \in {s \in ProbedDatabases : s.db_exists}
    /\ server \in {srv \in Servers :
                        /\ srv.version = <<1, 1, 53981>>
                        /\ srv.db_exists
                        /\ (srv.readonly # "0") = self.connection_readonly}
    /\ sent = <<>>
    /\ exc = None
    /\ op = [name |-> "__init__", before |-> self]
    /\ ret = None

CallInsert ==
    \E n \in 0..MaxRecords, batch_size \in BatchSizes, kind \in Kinds,
       outs \in OutcomeSeqs(1) :
        \E m \in {insert(Start(self, server), Instances(n), batch_size, kind,
                         NoSession, outs)} :
            /\ self' = m.self
            /\ server' = m.server
            /\ sent' = m.sent
            /\ exc' = m.exc
            /\ op' = [name |-> "insert", before |-> self, n |-> n,
                      batch_size |-> batch_size, kind |-> kind]
            /\ ret' = None

CallDropTable ==
    \E kind \in Kinds, outs \in OutcomeSeqs(1) :
        \E m \in {drop_table(Start(self, server), kind, NoSession, outs)} :
            /\ self' = m.self
            /\ server' = m.server
            /\ sent' = m.sent
            /\ exc' = m.exc
            /\ op' = [name |-> "drop_table", before |-> self, n |-> 0,
                      batch_size |-> 0, kind |-> kind]
            /\ ret' = None

NextInsert == CallInsert \/ CallDropTable

SpecInsert == InitInsert /\ [][NextInsert]_vars

\* the chunks of the request the last insert sent
Chunks == sent[1].data.args

Min(a, b) == IF a <= b THEN a ELSE b

\* C4: a non-empty insert of n records with batch size b >= 1 produces
\* ceil(n/b) chunks: the first is the header and the first b records, each
\* following one the next b records and no header, the last one the rest.
C4_ChunksOfBatchSize ==
    (op.name = "insert" /\ sent # <<>> /\ op.batch_size >= 1) =>
        LET n == op.n
            b == op.batch_size
        IN  /\ Len(Chunks) = (n + b - 1) \div b
            /\ \A i \in 1..Len(Chunks) :
                Chunks[i] = (IF i = 1 THEN <<Header>> ELSE <<>>) \o
                            SubSeq(Instances(n), (i - 1) * b + 1, Min(i * b, n))

\* a call that writes to or drops the table of a kind: an insert of at
\* least one record, or a drop_table
WritesOrDrops == (op.name = "insert" /\ op.n >= 1) \/ op.name = "drop_table"

FailedBeforeAnyRequest == exc = "DatabaseException" /\ sent = <<>>

\* C11 as stated: insert into, and drop_table of, a kind that is read-only
\* or a system table fails before any request is sent, for read-only kinds
\* that are not system tables as well as for system tables.
C11_ReadOnlyOrSystemFailsFast ==
    (WritesOrDrops /\ (op.kind.read_only \/ op.kind.system)) =>
        FailedBeforeAnyRequest

\* C11 amended: an insert of at least one record of a kind that is
\* read-only or a system table, and a drop_table of a system table, fail
\* before any request is sent; a drop_table of a kind that is not a system
\* table, read-only or not, sends the DROP TABLE request and ends as that
\* request does.
C11_InsertFailsFastDropOnlySystem ==
    /\ (op.name = "insert" /\ op.n >= 1 /\ (op.kind.read_only \/ op.kind.system)) =>
            FailedBeforeAnyRequest
    /\ (op.name = "drop_table" /\ op.kind.system) => FailedBeforeAnyRequest
    /\ (op.name = "drop_table" /\ ~op.kind.system) =>
            /\ Len(sent) = 1
            /\ sent[1].data = DropTableQuery
            /\ exc = sent[1].raised

\* C11 witness: the table of a read-only kind that is not a system table
\* has been dropped
C11_Witness ==
    /\ op.name = "drop_table"
    /\ op.kind.read_only
    /\ ~op.kind.system
    /\ Len(sent) = 1
    /\ sent[1].data = DropTableQuery
    /\ exc = None

\* C15: insert of an empty sequence of records returns without error and
\* sends no request, whatever the kind of the records would have been.
C15_EmptyInsertIsSilent ==
    (op.name = "insert" /\ op.n = 0) => (exc = None /\ sent = <<>>)

\* C15 witness: an empty insert of a read-only kind has returned
C15_Witness ==
    /\ op.name = "insert"
    /\ op.n = 0
    /\ op.kind.read_only
    /\ exc = None
    /\ sent = <<>>

\* the number of records in a chunk: its lines without the statement line
Records(chunk) == Len(SelectSeq(chunk, LAMBDA line : line # Header))

\* C20: for every batch size b >= 1 and every input length, no chunk of an
\* insert contains more than b records.
C20_NoChunkAboveBatchSize ==
    (op.name = "insert" /\ sent # <<>> /\ op.batch_size >= 1) =>
        \A i \in 1..Len(Chunks) : Records(Chunks[i]) <= op.batch_size

\* C21: for every non-empty input and every batch size, 1 and values <= 0
\* included, the chunks of an insert put end to end are the INSERT
\* statement line followed by the line of every record, each once and in
\* input order; the statement line is the first line of the first chunk
\* and occurs nowhere else; no chunk is empty.
C21_ChunksConcatenateToInput ==
    (op.name = "insert" /\ sent # <<>>) =>
        /\ op.n >= 1
        /\ Chunks # <<>>
        /\ Concat(Chunks) = <<Header>> \o Instances(op.n)
        /\ \A i \in 1..Len(Chunks) :
              /\ Chunks[i] # <<>>
              /\ \A j \in 1..Len(Chunks[i]) :
                    (Chunks[i][j] = Header) <=> (i = 1 /\ j = 1)

\* C21 witness: three records sent with batch size 0 in two chunks, the
\* statement line and two records, then the third record
C21_Witness ==
    /\ op.name = "insert"
    /\ op.n = 3
    /\ op.batch_size = 0
    /\ sent # <<>>
    /\ Chunks = <<<<Header, 1, 2>>, <<3>>>>

(***************************************************************************)
(* Reading: count, select, paginate.                                       *)
(***************************************************************************)
\* Database.count; the server answers count() with a number, never with
\* an empty text
count(m, ctx, outs) ==
    LET r == _send(m, CountQuery, EmptyDict, ctx, outs)
    IN  IF r.exc # None THEN r ELSE [r EXCEPT !.val = r.text]

\* the records select() yields from the lines of a response, lines 334-344
Decode(lines) ==
    IF Len(lines) < 2 THEN <<>>
    ELSE SelectSeq(SubSeq(lines, 3, Len(lines)), LAMBDA line : line # BlankLine)

\* Database.select, consumed to its end: val is the list of its records
select(m, query, settings, ctx, outs) ==
    LET r == _send(m, query, settings, ctx, outs)
    IN  IF r.exc # None THEN r ELSE [r EXCEPT !.val = Decode(r.text)]

Max(a, b) == IF a >= b THEN a ELSE b

\* mutant: the quotient is rounded down
Floor(a, b) == a \div b

\* int(ceil(count / float(page_size)))
Ceil(a, b) == IF a % b = 0 THEN a \div b ELSE a \div b + 1

\* mutant: the last page of an empty table is page 0
LastPageUnclamped(pages_total) == pages_total

\* page_num = max(pages_total, 1), line 387
LastPage(pages_total) == Max(pages_total, 1)

\* mutant: the SELECT is sent whatever the count is
paginate_always_selects(m, page_num, page_size, settings, ctx, outs) ==
    LET c == count(m, ctx, outs)
        pages_total == Ceil(c.val, page_size)
        number == IF page_num = 0 - 1 THEN LastPage(pages_total) ELSE page_num
        offset == (number - 1) * page_size
        s == select(c, Query(PageSql, <<offset, page_size>>), settings, ctx, outs)
    IN  IF c.exc # None THEN c
        ELSE IF page_num # 0 - 1 /\ page_num < 1 THEN Raise(c, "ValueError")
        ELSE IF s.exc # None THEN s
        ELSE [s EXCEPT !.val = [objects |-> s.val, number_of_objects |-> c.val,
                                pages_total |-> pages_total, number |-> number,
                                page_size |-> page_size]]

\* Database.paginate: val is the Page
paginate(m, page_num, page_size, settings, ctx, outs) ==
    LET c == count(m, ctx, outs)
        pages_total == Ceil(c.val, page_size)
        number == IF page_num = 0 - 1 THEN LastPage(pages_total) ELSE page_num
        offset == (number - 1) * page_size
        s == IF c.val # 0
             THEN select(c, Query(PageSql, <<offset, page_size>>), settings, ctx, outs)
             ELSE [c EXCEPT !.val = <<>>]
    IN  IF c.exc # None THEN c
        ELSE IF page_num # 0 - 1 /\ page_num < 1 THEN Raise(c, "ValueError")
        ELSE IF s.exc # None THEN s
        ELSE [s EXCEPT !.val = [objects |-> s.val, number_of_objects |-> c.val,
                                pages_total |-> pages_total, number |-> number,
                                page_size |-> page_size]]

MaxPage == 4
PageNums == (0 - 2)..MaxPage

InitPaginate ==
    /\ self \in {s \in ProbedDatabases : s.db_exists /\ ~s.readonly}
    /\ server \in {[srv EXCEPT !.rows = n] :
                        srv \in {x \in Servers : /\ x.version = <<1, 1, 53981>>
                                                 /\ x.db_exists
                                                 /\ x.readonly = "0"},
                        n \in 0..MaxRows}
    /\ sent = <<>>
    /\ exc = None
    /\ op = [name |-> "__init__", before |-> self]
    /\ ret = None

CallPaginate ==
    \E page_num \in PageNums, page_size \in 1..MaxPageSize, outs \in OutcomeSeqs(2) :
        \E m \in {paginate(Start(self, server), page_num, page_size, EmptyDict,
                           NoSession, outs)} :
            /\ self' = m.self
            /\ server' = m.server
            /\ sent' = m.sent
            /\ exc' = m.exc
            /\ op' = [name |-> "paginate", before |-> self, page_num |-> page_num,
                      page_size |-> page_size]
            /\ ret' = IF m.exc = None THEN m.val ELSE None

NextPaginate == CallPaginate

SpecPaginate == InitPaginate /\ [][NextPaginate]_vars

PageReturned == op.name = "paginate" /\ exc = None

\* pages_total is the least number of pages of page_size that hold the rows
PagesTotalIsCeiling ==
    /\ ret.pages_total * ret.page_size >= ret.number_of_objects
    /\ (ret.pages_total - 1) * ret.page_size < ret.number_of_objects
    /\ ret.number_of_objects = server.rows

\* C8 as stated: every Page has pages_total = ceil(number_of_objects /
\* page_size), and its objects are empty iff number_of_objects = 0.
C8_EmptyIffNoRows ==
    PageReturned =>
        /\ PagesTotalIsCeiling
        /\ (ret.objects = <<>>) <=> (ret.number_of_objects = 0)

\* C8 amended: every Page has pages_total = ceil(number_of_objects /
\* page_size), and its objects are empty iff number_of_objects = 0 or the
\* page number lies beyond the last page (number > pages_total).
C8_EmptyIffNoRowsOrBeyondLast ==
    PageReturned =>
        /\ PagesTotalIsCeiling
        /\ (ret.objects = <<>>) <=>
                (ret.number_of_objects = 0 \/ ret.number > ret.pages_total)

\* C8 witness: a Page of a table with rows, asked for beyond its last page
C8_Witness ==
    /\ PageReturned
    /\ ret.number_of_objects > 0
    /\ ret.number > ret.pages_total
    /\ ret.objects = <<>>

\* C9: paginate with page_num = -1 returns the last page: number is
\* max(pages_total, 1), the SELECT's offset is (number-1)*page_size, objects
\* are the last count - (pages_total-1)*page_size rows; over an empty table
\* objects = [], pages_total = 0 and number = 1.
C9_LastPage ==
    (PageReturned /\ op.page_num = 0 - 1) =>
        /\ ret.number = Max(ret.pages_total, 1)
        /\ PagesTotalIsCeiling
        /\ IF ret.number_of_objects = 0
           THEN ret.objects = <<>> /\ ret.pages_total = 0 /\ ret.number = 1
                /\ Len(sent) = 1
           ELSE /\ LastRequest.data.args = <<(ret.number - 1) * ret.page_size, ret.page_size>>
                /\ Len(ret.objects) =
                     ret.number_of_objects - (ret.pages_total - 1) * ret.page_size
                /\ ret.objects[Len(ret.objects)] = ret.number_of_objects
                /\ Len(ret.objects) \in 1..ret.page_size

\* C9 witness: the last page of 7 rows in pages of 3 is page 3 with 1 row
C9_Witness ==
    /\ PageReturned
    /\ op.page_num = 0 - 1
    /\ ret.number_of_objects = 7
    /\ ret.page_size = 3
    /\ ret.number = 3
    /\ ret.pages_total = 3
    /\ Len(ret.objects) = 1

\* the requests of the last call that are the page's SELECT
Selects == {i \in 1..Len(sent) : sent[i].data.sql = PageSql}

\* the COUNT query of the last paginate was answered
Counted == sent # <<>> /\ sent[1].data = CountQuery /\ sent[1].raised = None

PageAccepted == op.page_num = 0 - 1 \/ op.page_num >= 1

\* C18: paginate sends the SELECT exactly when the count is greater than
\* 0 and the page number is accepted, and after the COUNT query.  With a
\* count of 0 the COUNT query is the only request and objects is the
\* empty list; with page_num = 0 or page_num < -1 paginate fails with
\* ValueError, returns no Page and sends no SELECT.
C18_SelectOnlyWhenNeeded ==
    op.name = "paginate" =>
        /\ sent[1].data = CountQuery
        /\ Selects = IF Counted /\ server.rows > 0 /\ PageAccepted
                     THEN {2} ELSE {}
        /\ (Counted /\ server.rows = 0 /\ PageAccepted) =>
              /\ Len(sent) = 1
              /\ exc = None
              /\ ret.objects = <<>>
        /\ (Counted /\ ~PageAccepted) =>
              /\ exc = "ValueError"
              /\ ret = None
              /\ Len(sent) = 1

\* C18 witness: page 0 of a table with rows was asked for and refused
\* after the COUNT query
C18_Witness ==
    /\ op.name = "paginate"
    /\ op.page_num = 0
    /\ server.rows > 0
    /\ Counted
    /\ exc = "ValueError"
    /\ Selects = {}

(***************************************************************************)
(* The migration runner.                                                   *)
(***************************************************************************)
HistoryKind == [table |-> HistoryTable, read_only |-> FALSE, system |-> FALSE]

DefaultBatchSize == 1000
DefaultUpTo == 9999

\* Database.create_table, for a class that defines an engine
create_table(m, kind, ctx, outs) ==
    IF kind.system THEN Raise(m, "DatabaseException")
    ELSE _send(m, CreateHistoryQuery, EmptyDict, ctx, outs)

\* mutant: the history is read for another package, and is empty
_get_applied_migrations_none(m, ctx, outs) ==
    LET t == create_table(m, HistoryKind, ctx, outs)
        r == select(t, HistoryQuery, EmptyDict, ctx, outs)
    IN  IF t.exc # None THEN t
        ELSE IF r.exc # None THEN r
        ELSE [r EXCEPT !.val = {}]

\* Database._get_applied_migrations: val is the set of the recorded names
_get_applied_migrations(m, ctx, outs) ==
    LET t == create_table(m, HistoryKind, ctx, outs)
        r == select(t, HistoryQuery, EmptyDict, ctx, outs)
    IN  IF t.exc # None THEN t
        ELSE IF r.exc # None THEN r
        ELSE [r EXCEPT !.val = {r.val[i] : i \in 1..Len(r.val)}]

\* for operation in modules[name].operations: operation.apply(self), from
\* the k-th operation on; an operation is one statement
RECURSIVE ApplyOperations(_, _, _, _, _)
ApplyOperations(m, name, k, ctx, outs) ==
    IF k > OpsPerUnit THEN m
    ELSE LET r == _send(m, Query(OperationSql, <<name, k>>), EmptyDict, ctx, outs)
         IN  IF r.exc # None THEN r ELSE ApplyOperations(r, name, k + 1, ctx, outs)

\* mutant: the history row is written before the operations run
RecordThenApply(m, name, ctx, outs) ==
    LET h == insert(m, <<name>>, DefaultBatchSize, HistoryKind, ctx, outs)
    IN  IF h.exc # None THEN h ELSE ApplyOperations(h, name, 1, ctx, outs)

\* the body of the loop of migrate, lines 422-433
ApplyThenRecord(m, name, ctx, outs) ==
    LET a == ApplyOperations(m, name, 1, ctx, outs)
    IN  IF a.exc # None THEN a
        ELSE insert(a, <<name>>, DefaultBatchSize, HistoryKind, ctx, outs)

\* mutant: up_to is the number of the last unit to apply; the loop stops
\* before a unit beyond it
RECURSIVE MigrateLoopExclusive(_, _, _, _, _)
MigrateLoopExclusive(m, names, up_to, ctx, outs) ==
    IF names = <<>> THEN m
    ELSE IF Head(names) > up_to THEN m
    ELSE LET r == ApplyThenRecord(m, Head(names), ctx, outs)
         IN  IF r.exc # None THEN r
             ELSE MigrateLoopExclusive(r, Tail(names), up_to, ctx, outs)

\* the loop of migrate over the sorted names, lines 421-435
RECURSIVE MigrateLoop(_, _, _, _, _)
MigrateLoop(m, names, up_to, ctx, outs) ==
    IF names = <<>> THEN m
    ELSE LET r == ApplyThenRecord(m, Head(names), ctx, outs)
         IN  IF r.exc # None THEN r
             ELSE IF Head(names) >= up_to THEN r
             ELSE MigrateLoop(r, Tail(names), up_to, ctx, outs)

\* Database.migrate
migrate(m, up_to, ctx, outs) ==
    LET a == _get_applied_migrations(m, ctx, outs)
    IN  IF a.exc # None THEN a
        ELSE MigrateLoop(a, SetToSeq(Modules \ a.val), up_to, ctx, outs)

UpTos == Modules \cup {DefaultUpTo}

\* the most requests one migrate sends
MigrateRequests == 2 + NumUnits * (OpsPerUnit + 1)

InitMigrate ==
    /\ self \in {s \in ProbedDatabases : s.db_exists /\ ~s.readonly}
    /\ server \in {x \in Servers : /\ x.version = <<1, 1, 53981>>
                                   /\ x.db_exists
                                   /\ x.readonly = "0"}
    /\ sent = <<>>
    /\ exc = None
    /\ op = [name |-> "__init__", before |-> self]
    /\ ret = None

CallMigrate ==
    \E up_to \in UpTos, outs \in OutcomeSeqs(MigrateRequests) :
        \E m \in {migrate(Start(self, server), up_to, NoSession, outs)} :
            /\ self' = m.self
            /\ server' = m.server
            /\ sent' = m.sent
            /\ exc' = m.exc
            /\ op' = [name |-> "migrate", before |-> self, up_to |-> up_to]
            /\ ret' = None

NextMigrate == CallMigrate

SpecMigrate == InitMigrate /\ [][NextMigrate]_vars

\* the request r executes an operation of unit u / the k-th one
IsOperation(r, u) == r.data.sql = OperationSql /\ r.data.args[1] = u

IsOperationK(r, u, k) == r.data.sql = OperationSql /\ r.data.args = <<u, k>>

\* the request r writes the history row of unit u
IsRecord(r, u) ==
    /\ r.data.sql = InsertSql(HistoryTable)
    /\ \E i \in 1..Len(Concat(r.data.args)) : Concat(r.data.args)[i] = u

\* how many requests of the log satisfy Test
Count(log, Test(_)) == Cardinality({i \in 1..Len(log) : Test(log[i])})

\* C7: migrate(package, up_to) never applies a unit whose number is
\* greater than up_to.
C7_NothingBeyondUpTo ==
    op.name = "migrate" =>
        \A i \in 1..Len(sent), u \in Modules :
            IsOperation(sent[i], u) => u <= op.up_to

NothingRecorded == \A u \in Modules : server.history[u] = 0

\* C5: a unit whose history row has been written is never applied or
\* recorded again by a later migrate; no unit has more than one history
\* row; a migrate without failure and without up_to leaves every unit
\* recorded, and starting from an empty history it executes every
\* operation of every unit exactly once and writes one row per unit, so
\* that a second migrate finds nothing to apply.
C5_AppliedOnce ==
    [][ op'.name = "migrate" =>
          /\ \A u \in Modules :
                /\ server'.history[u] <= 1
                /\ server.history[u] > 0 =>
                      /\ Count(sent', LAMBDA r : IsOperation(r, u)) = 0
                      /\ Count(sent', LAMBDA r : IsRecord(r, u)) = 0
          /\ (exc' = None /\ op'.up_to = DefaultUpTo) =>
                /\ \A u \in Modules : server'.history[u] = 1
                /\ NothingRecorded =>
                      \A u \in Modules :
                          /\ Count(sent', LAMBDA r : IsRecord(r, u)) = 1
                          /\ \A k \in Operations :
                                Count(sent', LAMBDA r : IsOperationK(r, u, k)) = 1
      ]_vars

\* C5 witness: a migrate that found every unit recorded and sent only the
\* CREATE TABLE and the history query
C5_Witness ==
    /\ op.name = "migrate"
    /\ exc = None
    /\ Len(sent) = 2
    /\ \A u \in Modules : server.history[u] = 1
    /\ server.applied = Modules \X Operations

\* an operation of unit N failed in the last migrate
OperationFailed(N) ==
    /\ op.name = "migrate"
    /\ sent # <<>>
    /\ IsOperation(LastRequest, N)
    /\ LastRequest.raised # None

\* C6: when an operation of unit N fails, migrate ends with that error
\* without sending the operation again, the units before N are recorded,
\* N and the units after it are not, and the next migrate starts with the
\* first operation of N.
C6_FailureLeavesUnitPending ==
    [][ \A N \in Modules :
          /\ OperationFailed(N)' =>
                /\ exc' = LastRequest'.raised
                /\ Count(sent', LAMBDA r : r.data = LastRequest'.data) = 1
                /\ \A u \in Modules :
                      server'.history[u] = IF u < N THEN 1 ELSE 0
          /\ (OperationFailed(N) /\ op'.name = "migrate" /\ Len(sent') >= 3) =>
                IsOperationK(sent'[3], N, 1)
      ]_vars

\* C6 witness: the second operation of unit 2 failed after unit 1 was
\* applied and recorded in the same migrate
C6_Witness ==
    /\ OperationFailed(2)
    /\ LastRequest.data.args = <<2, 2>>
    /\ Count(sent, LAMBDA r : IsRecord(r, 1)) = 1
    /\ server.history[1] = 1

\* the units without a history row
Pending == {u \in Modules : server.history[u] = 0}

\* the pending units up to and including the first whose number is >= up_to
UpToBoundary(pending, up_to) ==
    {u \in pending : \A v \in pending : v < u => v < up_to}

\* the unit a request of the loop of migrate works on
UnitOf(r) ==
    IF r.data.sql = OperationSql THEN r.data.args[1] ELSE Concat(r.data.args)[2]

Delimiter == "$"
Identifiers == {"db", "table", "x"}
Tokens == {Delimiter, "{", "}", "'"} \cup Identifiers

\* model_class is {} for None, else the set of the one class given
ModelClasses ==
    {{}} \cup {{[system |-> sys, temporary |-> tmp]} : sys \in BOOLEAN, tmp \in BOOLEAN}

\* the mapping of _substitute, lines 489-496
Mapping(model_class) ==
    LET db == [k \in {"db"} |-> "[db]"]
    IN  IF model_class = {} THEN db
        ELSE LET c == CHOOSE x \in model_class : TRUE
             IN  DictSet(db, "table",
                         IF c.system THEN "[system].[t]"
                         ELSE IF c.temporary THEN "[t]"
                         ELSE "[db].[t]")

\* string.Template(query).safe_substitute(mapping): the pattern is matched
\* at each $ from the left: $$ is the escape of one $; $name and ${name}
\* are replaced when name is in the mapping and left as they are when it
\* is not; any other $ is left as it is
RECURSIVE safe_substitute(_, _)
safe_substitute(q, mapping) ==
    LET named(name, n) ==
            (IF name \in DOMAIN mapping THEN <<mapping[name]>> ELSE SubSeq(q, 1, n))
            \o safe_substitute(SubSeq(q, n + 1, Len(q)), mapping)
    IN  IF q = <<>> THEN <<>>
        ELSE IF Head(q) # Delimiter
        THEN <<Head(q)>> \o safe_substitute(Tail(q), mapping)
        ELSE IF Len(q) >= 2 /\ q[2] = Delimiter
        THEN <<Delimiter>> \o safe_substitute(SubSeq(q, 3, Len(q)), mapping)
        ELSE IF Len(q) >= 2 /\ q[2] \in Identifiers
        THEN named(q[2], 2)
        ELSE IF Len(q) >= 4 /\ q[2] = "{" /\ q[3] \in Identifiers /\ q[4] = "}"
        THEN named(q[3], 4)
        ELSE <<Delimiter>> \o safe_substitute(Tail(q), mapping)

\* Database._substitute
_substitute(query, model_class) ==
    IF \E i \in 1..Len(query) : query[i] = Delimiter
    THEN safe_substitute(query, Mapping(model_class))
    ELSE query

\* the texts of at most n tokens; two runs of identifier characters are
\* never adjacent, they would be one run
RECURSIVE Texts(_)
Texts(n) ==
    IF n = 0 THEN {<<>>}
    ELSE LET shorter == Texts(n - 1)
         IN  shorter \cup
             {Append(q, t) : q \in {p \in shorter : Len(p) = n - 1}, t \in Tokens}

Queries ==
    {q \in Texts(MaxQueryLen) :
        \A i \in 1..(Len(q) - 1) : ~(q[i] \in Identifiers /\ q[i + 1] \in Identifiers)}

InitSubstitute ==
    /\ self = NewDatabase(FALSE, TRUE)
    /\ server \in {x \in Servers : /\ x.version = <<1, 1, 53981>>
                                   /\ x.db_exists
                                   /\ x.readonly = "0"}
    /\ sent = <<>>
    /\ exc = None
    /\ \E query \in Queries, model_class \in ModelClasses :
          op = [name |-> "__init__", before |-> self, query |-> query,
                model_class |-> model_class]
    /\ ret = <<>>

CallSubstitute ==
    /\ op.name = "__init__"
    /\ ret' = _substitute(op.query, op.model_class)
    /\ op' = [op EXCEPT !.name = "_substitute"]
    /\ UNCHANGED <<self, server, sent, exc>>

NextSubstitute == CallSubstitute

SpecSubstitute == InitSubstitute /\ [][NextSubstitute]_vars

\* the text q has the placeholder of name, written $name or ${name}
HasPlaceholder(q, name) ==
    \E i \in 1..Len(q) :
        /\ q[i] = Delimiter
        /\ \/ i + 1 <= Len(q) /\ q[i + 1] = name
           \/ i + 3 <= Len(q) /\ q[i + 1] = "{" /\ q[i + 2] = name /\ q[i + 3] = "}"

\* C13: for every query text that has neither the $db nor the $table
\* placeholder, literal $ characters or not, and for every model class,
\* _substitute returns the text it was given.
C13_NoPlaceholderNoChange ==
    (/\ op.name = "_substitute"
     /\ ~HasPlaceholder(op.query, "db")
     /\ ~HasPlaceholder(op.query, "table")) => ret = op.query

(***************************************************************************)
(* select, one step of its consumer at a time.  Calling select creates a   *)
(* generator and runs nothing; the body runs from the first next() to the  *)
(* first yield, and from yield to yield afterwards.  The generator is a    *)
(* record: its state, whether _send returned a response r, how many times  *)
(* r.close() ran, the lines of r not yet read, the records yielded, and    *)
(* how it ended.                                                           *)
(***************************************************************************)
NewGenerator ==
    [state |-> "created", opened |-> FALSE, closed |-> 0, lines |-> <<>>,
     yielded |-> <<>>, exit |-> None]

\* mutant: no line is taken for blank
BlankNever(line) == FALSE

\* not line.strip(), line 341
Blank(line) == line = BlankLine

\* mutant: r.close() runs only at the end of the loop
select_finally_at_end(g, exit) ==
    [g EXCEPT !.state = "done", !.exit = exit,
              !.closed = IF exit = "exhausted" THEN @ + 1 ELSE @]

\* finally: r.close(), lines 345-346; exit tells how the body was left
select_finally(g, exit) ==
    [g EXCEPT !.state = "done", !.exit = exit, !.closed = @ + 1]

\* for line in lines, lines 339-342, up to the next yield; m.val is the
\* generator
RECURSIVE select_loop(_)
select_loop(m) ==
    LET g == m.val
    IN  IF g.lines = <<>>
        THEN [m EXCEPT !.val = select_finally(g, "exhausted")]
        ELSE LET line == Head(g.lines)
                 h == [g EXCEPT !.lines = Tail(@)]
             IN  IF Blank(line) THEN select_loop([m EXCEPT !.val = h])
                 ELSE IF line = BadLine
                 THEN [m EXCEPT !.val = select_finally(h, "raised"),
                                !.exc = "ValueError"]
                 ELSE [m EXCEPT !.val = [h EXCEPT !.state = "suspended",
                                                  !.yielded = Append(@, line)]]

\* the body of select from its start, lines 330-338: the request, then the
\* two header lines; StopIteration from next(lines) ends the generator
select_body(m, settings, ctx, outs) ==
    LET g == m.val
        r == _send(m, SelectQuery, settings, ctx, outs)
        o == [g EXCEPT !.opened = TRUE]
    IN  IF r.exc # None
        THEN [r EXCEPT !.val = [g EXCEPT !.state = "done", !.exit = "failed"]]
        ELSE IF Len(r.text) < 2
        THEN [r EXCEPT !.val = select_finally(o, "short")]
        ELSE select_loop([r EXCEPT !.val =
                            [o EXCEPT !.lines = SubSeq(r.text, 3, Len(r.text))]])

\* next(generator)
select_next(m, settings, ctx, outs) ==
    IF m.val.state = "created" THEN select_body(m, settings, ctx, outs)
    ELSE IF m.val.state = "suspended" THEN select_loop(m)
    ELSE m

\* generator.close(), which also runs when the consumer drops a generator:
\* GeneratorExit is raised at the yield and only the finally clause runs;
\* a generator that was never started just ends
select_close(m) ==
    IF m.val.state = "suspended"
    THEN [m EXCEPT !.val = select_finally(m.val, "abandoned")]
    ELSE IF m.val.state = "created"
    THEN [m EXCEPT !.val = [m.val EXCEPT !.state = "done", !.exit = "unused"]]
    ELSE m

DataLines == {1, 2}

RECURSIVE Bodies(_)
Bodies(n) ==
    IF n = 0 THEN {<<>>}
    ELSE LET shorter == Bodies(n - 1)
         IN  shorter \cup
             {Append(b, l) : b \in {x \in shorter : Len(x) = n - 1},
                             l \in DataLines \cup {BlankLine, BadLine}}

\* what the server answers to the SELECT: nothing, one line, or the names
\* and types lines and at most MaxLines lines after them
Responses ==
    {<<>>, <<NamesLine>>} \cup
    {<<NamesLine, TypesLine>> \o b : b \in Bodies(MaxLines)}

InitSelect ==
    /\ self \in {s \in ProbedDatabases : s.db_exists /\ ~s.readonly}
    /\ server \in {[srv EXCEPT !.response = lines] :
                        srv \in {x \in Servers : /\ x.version = <<1, 1, 53981>>
                                                 /\ x.db_exists
                                                 /\ x.readonly = "0"},
                        lines \in Responses}
    /\ sent = <<>>
    /\ exc = None
    /\ op = [name |-> "__init__", before |-> self]
    /\ ret = None

\* g = db.select(query): nothing of the body runs
CallSelect ==
    /\ op.name = "__init__"
    /\ ret' = NewGenerator
    /\ op' = [name |-> "select", before |-> self]
    /\ UNCHANGED <<self, server, sent, exc>>

\* the generator g of the last select is live
Live == op.name \in {"select", "next", "close"} /\ ret.state # "done"

GenFinish(name, m) ==
    /\ self' = m.self
    /\ server' = m.server
    /\ sent' = sent \o m.sent
    /\ exc' = m.exc
    /\ op' = [name |-> name, before |-> self]
    /\ ret' = m.val

\* next(g)
GenNext ==
    /\ Live
    /\ \E outs \in OutcomeSeqs(1) :
          \E m \in {select_next([Start(self, server) EXCEPT !.val = ret],
                                EmptyDict, NoSession, outs)} :
              GenFinish("next", m)

\* g.close(), or g dropped by its consumer
GenClose ==
    /\ Live
    /\ \E m \in {select_close([Start(self, server) EXCEPT !.val = ret])} :
          GenFinish("close", m)

NextSelect == CallSelect \/ GenNext \/ GenClose

SpecSelect == InitSelect /\ [][NextSelect]_vars

\* a generator of select exists
Selected == op.name \in {"select", "next", "close"}

\* C14: the response that _send returned to select is closed exactly once
\* however the generator ends: by exhaustion, by the consumer abandoning
\* it after any number of records, by a response of fewer than two lines,
\* by a line that cannot be decoded; it is not closed while the generator
\* can still yield, and never twice.
C14_ClosedExactlyOnce ==
    Selected =>
        /\ ret.closed \in {0, 1}
        /\ ret.state = "done" => ret.closed = IF ret.opened THEN 1 ELSE 0
        /\ ret.state # "done" => ret.closed = 0
        /\ ret.state = "suspended" => ret.opened
        /\ ret.exit \in {"exhausted", "abandoned", "short", "raised"} =>
              (ret.opened /\ ret.closed = 1)
        /\ ret.opened <=> (sent # <<>> /\ sent[1].raised = None)

\* C14 witness: the consumer took one record of several and dropped the
\* generator
C14_Witness ==
    /\ op.name = "close"
    /\ ret.exit = "abandoned"
    /\ Len(ret.yielded) = 1
    /\ ret.lines # <<>>
    /\ ret.closed = 1

\* the lines of the response after the two header lines
AfterHeader == SubSeq(server.response, 3, Len(server.response))

NonBlank(lines) == SelectSeq(lines, LAMBDA line : line # BlankLine)

\* the lines of the response read so far
Read == SubSeq(AfterHeader, 1, Len(AfterHeader) - Len(ret.lines))

\* C19: the records yielded are, in response order, one for each
\* non-blank line read after the two header lines, blank lines being
\* skipped wherever they are; an exhausted generator has read every line,
\* and yielded what list(select) gives; a response of fewer than two
\* lines ends the generator at the first next() with no record and no
\* error.
C19_OneRecordPerNonBlankLine ==
    (Selected /\ ret.opened) =>
        /\ ret.exit # "raised" => ret.yielded = NonBlank(Read)
        /\ ret.exit = "raised" =>
              /\ Read[Len(Read)] = BadLine
              /\ ret.yielded = NonBlank(SubSeq(Read, 1, Len(Read) - 1))
        /\ ret.exit = "exhausted" =>
              /\ ret.lines = <<>>
              /\ ret.yielded = NonBlank(AfterHeader)
              /\ ret.yielded = Decode(server.response)
              /\ exc = None
        /\ Len(server.response) < 2 <=> ret.exit = "short"
        /\ ret.exit = "short" =>
              (ret.yielded = <<>> /\ exc = None /\ ret.state = "done")
        /\ ret.state = "suspended" => ret.yielded # <<>>

\* C19 witness: a response with a blank line among its two data lines was
\* read to its end
C19_Witness ==
    /\ op.name = "next"
    /\ ret.exit = "exhausted"
    /\ \E i \in 1..Len(AfterHeader) : AfterHeader[i] = BlankLine
    /\ ret.yielded = <<2, 1>>

====
